---- MODULE Spec2Model ----
(***************************************************************************)
(* Model of the vita-monit gateway: the frame decoder and the response     *)
(* frame builder of src/src/ipc/protocol-utils.ts (class ProtocolUtils),   *)
(* the device registry (class DeviceManager) and the broker event handlers *)
(* of src/src/ipc/main.ts (startMqttBroker).                               *)
(*                                                                         *)
(* Conventions.                                                            *)
(*  - A Buffer is a sequence of bytes 0..255; JavaScript offsets are       *)
(*    0-based, so buffer[k] of the source is buffer[k + 1] here.           *)
(*  - A string is a sequence of pieces, each piece a TLA+ string; wherever  *)
(*    the code looks at single characters (hex digits, colons) the pieces  *)
(*    are the single characters.  The source's Chinese literals are given  *)
(*    in English.                                                          *)
(*  - A JavaScript value is a record tagged by its type (field t), so that *)
(*    null, undefined, numbers, strings and arrays can be told apart; a    *)
(*    plain object is a function from property names to such values, and   *)
(*    a property that is absent is absent from the DOMAIN.                 *)
(*  - A call that can throw yields Returned(v) or Thrown(e).               *)
(***************************************************************************)
EXTENDS Integers, Sequences, FiniteSets, TLC

VARIABLES
  devices,     \* DeviceManager.devices : Map, client id -> device object
  logs,        \* DeviceManager.logs : array of {time, type, content}
  now,         \* the wall clock that new Date() reads
  outbox,      \* the Aedes.publish calls made by the handler that ran last
  notified,    \* the webContents.send calls made by the handler that ran last
  lastEvent,   \* the event handled last, the locals of its handler, how it ended
  events,      \* how many events have been handled
  build,       \* a stand-alone call of generateResponseFrame: input and result
  decode,      \* a stand-alone call of _parseAlarmType: input and result
  mqtt,        \* an mqtt:start request: its input, its result, the listener
  cluster      \* the workers: each worker's registry, who holds each connection

vars == <<devices, logs, now, outbox, notified, lastEvent, events, build,
          decode, mqtt, cluster>>

(***************************************************************************)
(* Bounds of the model.                                                    *)
(***************************************************************************)
\* The wall clock takes the values 0..MaxTime.
MaxTime == 1

\* The number of events (handler runs and registry calls) of one behaviour.
MaxEvents == 3

\* The log capacity.  The source keeps 10000 entries (main.ts:305); the model
\* scales that capacity down so that a full log and evictions are reachable.
LogCapacity == 2

(***************************************************************************)
(* JavaScript values.                                                      *)
(***************************************************************************)
Null == [t |-> "null"]
Undefined == [t |-> "undefined"]
Num(n) == [t |-> "number", v |-> n]
\* a number with one decimal digit, n / 10
Tenths(n) == [t |-> "number/10", v |-> n]
\* an unsigned 32-bit number, kept as two 16-bit halves
UInt32(hi, lo) == [t |-> "uint32", hi |-> hi, lo |-> lo]
Str(s) == [t |-> "string", v |-> s]
Arr(s) == [t |-> "array", v |-> s]
\* new Date(...).toLocaleString() of the instant n
TimeStr(n) == [t |-> "localeString", v |-> n]
EmptyObject == [k \in {} |-> Undefined]

\* const x = v; F(x) : v is evaluated once and F sees its value
Bind(v, F(_)) == CHOOSE r \in {F(x) : x \in {v}} : TRUE

Returned(v) == [threw |-> FALSE, val |-> v]
Thrown(e) == [threw |-> TRUE, val |-> Str(e)]

\* JavaScript truthiness of the values the handlers test
Truthy(v) ==
  IF "t" \notin DOMAIN v THEN TRUE                 \* a plain object
  ELSE CASE v.t = "null" -> FALSE
         [] v.t = "undefined" -> FALSE
         [] v.t = "number" -> v.v # 0
         [] v.t = "string" -> Len(v.v) > 0
         [] OTHER -> TRUE                          \* arrays, also empty ones

\* object spread { ...a, ...b }
Spread(a, b) ==
  [k \in (DOMAIN a) \cup (DOMAIN b) |-> IF k \in DOMAIN b THEN b[k] ELSE a[k]]

\* obj?.key : undefined when obj is null or undefined or has no such property
OptGet(obj, key) ==
  IF "t" \in DOMAIN obj THEN Undefined
  ELSE IF key \in DOMAIN obj THEN obj[key] ELSE Undefined

(***************************************************************************)
(* Buffers, hex and number formatting.                                     *)
(***************************************************************************)
Min(a, b) == IF a < b THEN a ELSE b

\* buffer.slice(start, end), 0-based, end exclusive, clamped to the length
Slice(buffer, start, end) ==
  SubSeq(buffer, Min(start, Len(buffer)) + 1, Min(end, Len(buffer)))

HexDigits == <<"0", "1", "2", "3", "4", "5", "6", "7",
               "8", "9", "a", "b", "c", "d", "e", "f">>

\* the value of a hex digit, either case; -1 for any other character
HexVal(c) ==
  CASE c = "0" -> 0 [] c = "1" -> 1 [] c = "2" -> 2 [] c = "3" -> 3
    [] c = "4" -> 4 [] c = "5" -> 5 [] c = "6" -> 6 [] c = "7" -> 7
    [] c = "8" -> 8 [] c = "9" -> 9
    [] c \in {"a", "A"} -> 10 [] c \in {"b", "B"} -> 11
    [] c \in {"c", "C"} -> 12 [] c \in {"d", "D"} -> 13
    [] c \in {"e", "E"} -> 14 [] c \in {"f", "F"} -> 15
    [] OTHER -> -1

\* buffer.toString('hex') : two lowercase digits per byte
ToHex(buffer) ==
  [i \in 1..(2 * Len(buffer)) |->
     IF i % 2 = 1 THEN HexDigits[(buffer[(i + 1) \div 2] \div 16) + 1]
                  ELSE HexDigits[(buffer[i \div 2] % 16) + 1]]

\* Buffer.from(s, 'hex') : decodes pairs of hex digits and stops at the first
\* pair that is not two hex digits; an odd trailing character is dropped
RECURSIVE HexPairs(_, _)
HexPairs(s, i) ==
  IF i + 1 > Len(s) THEN <<>>
  ELSE IF HexVal(s[i]) < 0 \/ HexVal(s[i + 1]) < 0 THEN <<>>
  ELSE <<16 * HexVal(s[i]) + HexVal(s[i + 1])>> \o HexPairs(s, i + 2)

FromHex(s) == HexPairs(s, 1)

\* s.replace(/:/g, '')
RECURSIVE StripColons(_)
StripColons(s) ==
  IF Len(s) = 0 THEN <<>>
  ELSE IF Head(s) = ":" THEN StripColons(Tail(s))
  ELSE <<Head(s)>> \o StripColons(Tail(s))

\* ToIntegerOrInfinity of the radix argument of Number.prototype.toString:
\* a number is itself, a string that is not numeric is NaN, hence 0
ToIntegerOrInfinity(radix) ==
  IF radix.t = "number" THEN radix.v ELSE 0

\* (byte).toString(radix) for a byte: RangeError unless 2 <= radix <= 36;
\* only radix 16 is spelled out, it is the one radix the decoder could mean
NumberToString(byte, radix) ==
  LET r == ToIntegerOrInfinity(radix) IN
  IF r < 2 \/ r > 36 THEN Thrown("RangeError")
  ELSE IF byte < 16 THEN Returned(<<HexDigits[byte + 1]>>)
  ELSE Returned(<<HexDigits[(byte \div 16) + 1], HexDigits[(byte % 16) + 1]>>)

\* s.padStart(2, '0')
PadStart2(s) == IF Len(s) < 2 THEN <<"0">> \o s ELSE s

\* parts.join(sep)
RECURSIVE Join(_, _)
Join(parts, sep) ==
  IF Len(parts) = 0 THEN <<>>
  ELSE IF Len(parts) = 1 THEN parts[1]
  ELSE parts[1] \o sep \o Join(Tail(parts), sep)

\* buffer.toString('ascii') : the low 7 bits of every byte, as character codes
Ascii(buffer) == [t |-> "ascii", v |-> [i \in 1..Len(buffer) |-> buffer[i] % 128]]

ReadUInt16BE(buffer, off) == buffer[off + 1] * 256 + buffer[off + 2]

ReadUInt32BE(buffer, off) ==
  UInt32(buffer[off + 1] * 256 + buffer[off + 2],
         buffer[off + 3] * 256 + buffer[off + 4])

ReadUInt32LE(buffer, off) ==
  UInt32(buffer[off + 4] * 256 + buffer[off + 3],
         buffer[off + 2] * 256 + buffer[off + 1])

\* two's complement, 32 bits, big-endian
ReadInt32BE(buffer, off) ==
  LET b0 == buffer[off + 1]
      top == IF b0 >= 128 THEN b0 - 256 ELSE b0
  IN top * 16777216 + buffer[off + 2] * 65536
       + buffer[off + 3] * 256 + buffer[off + 4]

(***************************************************************************)
(* ProtocolUtils (protocol-utils.ts).                                      *)
(***************************************************************************)
BOOT_VERSION == 43588   \* 0xAA44
HEALTH_DATA == 43605    \* 0xAA55
ALARM_DATA == 43639     \* 0xAA77
FAIL == 0
SUCCESS == 1
NO_UPGRADE == 0
NEED_UPGRADE == 1
PACKET_TAIL == 13       \* 0x0D

parseHeader(buffer) ==
  IF Len(buffer) < 2 THEN Null ELSE Num(ReadUInt16BE(buffer, 0))

\* Array.from(macBuffer).map(byte => byte.toString('hex').padStart(2, '0'))
\*   .join(':') : the map callback runs once per byte, so an empty buffer
\* yields '' and any other buffer takes what the first toString call does
parseMAC(macBuffer) ==
  Bind([i \in 1..Len(macBuffer) |-> NumberToString(macBuffer[i], Str("hex"))],
       LAMBDA conv :
         IF \E i \in 1..Len(macBuffer) : conv[i].threw
         THEN Thrown("RangeError")
         ELSE Returned(Str(Join([i \in 1..Len(macBuffer) |-> PadStart2(conv[i].val)],
                                <<":">>))))

parseTimestamp(timestampBuffer) ==
  [t |-> "localeString(zh-CN)", v |-> ReadUInt32LE(timestampBuffer, 0)]

parseTemperature(tempBuffer) == Tenths(ReadInt32BE(tempBuffer, 0))

parseWearStatus(statusByte) ==
  IF statusByte % 2 = 1 THEN Str(<<"worn">>) ELSE Str(<<"not worn">>)

\* _parseAlarmType testing bit2 (0x04) for SOS in place of bit1 (0x02)
parseAlarmType_Bit2(alarmByte) ==
  LET low == IF alarmByte % 2 = 1 THEN << <<"LowBattery">> >> ELSE <<>>
      sos == IF (alarmByte \div 4) % 2 = 1 THEN << <<"SOS">> >> ELSE <<>>
      alarms == low \o sos
  IN IF Len(alarms) > 0 THEN Arr(alarms) ELSE Arr(<< <<"Unknown">> >>)

\* the array holds strings
parseAlarmType(alarmByte) ==
  LET low == IF alarmByte % 2 = 1 THEN << <<"LowBattery">> >> ELSE <<>>
      sos == IF (alarmByte \div 2) % 2 = 1 THEN << <<"SOS">> >> ELSE <<>>
      alarms == low \o sos
  IN IF Len(alarms) > 0 THEN Arr(alarms) ELSE Arr(<< <<"Unknown">> >>)

parseBootVersionFrame(buffer) ==
  IF Len(buffer) # 12 \/ buffer[12] # PACKET_TAIL THEN Returned(Null)
  ELSE Bind(parseMAC(Slice(buffer, 2, 8)), LAMBDA mac :
         IF mac.threw THEN mac
         ELSE Returned([frameType |-> Num(BOOT_VERSION),
                        mac |-> mac.val,
                        softwareVersion |-> Ascii(Slice(buffer, 8, 11)),
                        rawData |-> Str(ToHex(buffer))]))

\* the healthData object of a health frame; the wifiMac call can throw
healthBlockData(healthBlock) ==
  Bind(parseMAC(Slice(healthBlock, 21, 27)), LAMBDA wifiMac :
    IF wifiMac.threw THEN wifiMac
    ELSE Returned([timestamp |-> parseTimestamp(Slice(healthBlock, 2, 6)),
                   frameCount |-> ReadUInt32BE(healthBlock, 6),
                   heartRate |-> Num(healthBlock[11]),
                   bloodOxygen |-> Num(healthBlock[12]),
                   wearStatus |-> parseWearStatus(healthBlock[13]),
                   wristTemp |-> parseTemperature(Slice(healthBlock, 13, 17)),
                   bodyTemp |-> parseTemperature(Slice(healthBlock, 17, 21)),
                   wifiMac |-> wifiMac.val]))

parseHealthDataFrame(buffer) ==
  IF Len(buffer) < 13 \/ buffer[Len(buffer)] # PACKET_TAIL THEN Returned(Null)
  ELSE Bind(parseMAC(Slice(buffer, 2, 8)), LAMBDA mac :
         IF mac.threw THEN mac
         ELSE Bind([frameType |-> Num(HEALTH_DATA),
                    mac |-> mac.val,
                    battery |-> Num(buffer[9]),
                    packetSeq |-> Num(buffer[10]),
                    packetLength |-> Num(ReadUInt16BE(buffer, 10)),
                    rawData |-> Str(ToHex(buffer))], LAMBDA baseInfo :
              Bind(Slice(buffer, 12, Len(buffer) - 1), LAMBDA healthBlock :
                IF Len(healthBlock) < 24 THEN Returned(baseInfo)
                ELSE Bind(healthBlockData(healthBlock), LAMBDA healthData :
                       IF healthData.threw THEN healthData
                       ELSE Returned(Spread(baseInfo,
                                            [healthData |-> healthData.val]))))))

parseAlarmDataFrame(buffer) ==
  IF Len(buffer) < 13 \/ buffer[Len(buffer)] # PACKET_TAIL THEN Returned(Null)
  ELSE Bind(parseMAC(Slice(buffer, 2, 8)), LAMBDA mac :
         IF mac.threw THEN mac
         ELSE Bind([frameType |-> Num(ALARM_DATA),
                    mac |-> mac.val,
                    packetLength |-> Num(ReadUInt16BE(buffer, 8)),
                    alarmType |-> parseAlarmType(buffer[11]),
                    rawData |-> Str(ToHex(buffer))], LAMBDA baseInfo :
              Bind(Slice(buffer, 11, Len(buffer) - 1), LAMBDA healthBlock :
                IF Len(healthBlock) >= 24
                THEN Returned(Spread(baseInfo,
                       [healthData |->
                          [heartRate |-> Num(healthBlock[11]),
                           bloodOxygen |-> Num(healthBlock[12]),
                           wearStatus |-> parseWearStatus(healthBlock[13])]]))
                ELSE Returned(baseInfo))))

\* generateResponseFrame with the health acknowledgment carrying FAIL for SUCCESS
generateResponseFrame_HealthFail(mac, frameType) ==
  Bind(FromHex(mac), LAMBDA macBuffer :
    CASE frameType = Num(BOOT_VERSION) ->
           Arr(<<170, 68>> \o macBuffer \o <<NO_UPGRADE>> \o <<0>> \o <<PACKET_TAIL>>)
      [] frameType = Num(HEALTH_DATA) ->
           Arr(<<170, 85>> \o macBuffer \o <<FAIL>> \o <<PACKET_TAIL>>)
      [] frameType = Num(ALARM_DATA) ->
           Arr(<<170, 119>> \o macBuffer \o <<SUCCESS>> \o <<PACKET_TAIL>>)
      [] OTHER -> Null)

\* mac: the MAC without colons, a string; frameType: a number or null
generateResponseFrame(mac, frameType) ==
  Bind(FromHex(mac), LAMBDA macBuffer :
    CASE frameType = Num(BOOT_VERSION) ->
           Arr(<<170, 68>> \o macBuffer \o <<NO_UPGRADE>> \o <<0>> \o <<PACKET_TAIL>>)
      [] frameType = Num(HEALTH_DATA) ->
           Arr(<<170, 85>> \o macBuffer \o <<SUCCESS>> \o <<PACKET_TAIL>>)
      [] frameType = Num(ALARM_DATA) ->
           Arr(<<170, 119>> \o macBuffer \o <<SUCCESS>> \o <<PACKET_TAIL>>)
      [] OTHER -> Null)

(***************************************************************************)
(* DeviceManager (main.ts, lines 225-309).  Every operation takes the      *)
(* fields it reads and returns the fields it writes.                       *)
(***************************************************************************)
\* Map.set(key, value)
MapSet(map, key, value) ==
  [k \in (DOMAIN map) \cup {key} |-> IF k = key THEN value ELSE map[k]]

EmptyMap == [k \in {} |-> EmptyObject]

\* _addLog without the eviction
addLog_NoEviction(l, content, type, time) ==
  Append(l, [time |-> TimeStr(time), type |-> type, content |-> content])

\* _addLog with pop() for shift(): over capacity it drops the entry just pushed
addLog_DropsNewest(l, content, type, time) ==
  Bind(Append(l, [time |-> TimeStr(time), type |-> type, content |-> content]),
       LAMBDA pushed :
         IF Len(pushed) > LogCapacity THEN SubSeq(pushed, 1, Len(pushed) - 1)
         ELSE pushed)

addLog(l, content, type, time) ==
  Bind(Append(l, [time |-> TimeStr(time), type |-> type, content |-> content]),
       LAMBDA pushed :
         IF Len(pushed) > LogCapacity THEN Tail(pushed) ELSE pushed)

\* addDevice merging into the record the id already has
addDevice_Merge(devs, l, time, mac, deviceInfo) ==
  [devices |-> MapSet(devs, mac,
                      Spread(IF mac \in DOMAIN devs THEN devs[mac]
                             ELSE [healthData |-> EmptyObject, alarm |-> Arr(<<>>)],
                             deviceInfo)),
   logs |-> addLog(l, <<"device online: ">> \o mac, "info", time)]

addDevice(devs, l, time, mac, deviceInfo) ==
  [devices |-> MapSet(devs, mac,
                      Spread(deviceInfo, [healthData |-> EmptyObject, alarm |-> Arr(<<>>)])),
   logs |-> addLog(l, <<"device online: ">> \o mac, "info", time)]

\* updateDeviceData without the has(mac) guard: an absent device spreads as {}
updateDeviceData_NoGuard(devs, l, time, mac, data) ==
  Bind(MapSet(devs, mac,
              Spread(IF mac \in DOMAIN devs THEN devs[mac] ELSE EmptyObject, data)),
       LAMBDA devs2 :
         IF Truthy(OptGet(data, "alarm"))
         THEN [devices |-> devs2,
               logs |-> addLog(l, <<"device alarm [">> \o mac \o <<"]: ">>
                                    \o Join(data.alarm.v, <<",">>),
                               "alarm", time)]
         ELSE [devices |-> devs2, logs |-> l])

\* updateDeviceData storing the partial in place of the merged record
updateDeviceData_Overwrite(devs, l, time, mac, data) ==
  IF mac \notin DOMAIN devs THEN [devices |-> devs, logs |-> l]
  ELSE Bind(MapSet(devs, mac, data), LAMBDA devs2 :
         IF Truthy(OptGet(data, "alarm"))
         THEN [devices |-> devs2,
               logs |-> addLog(l, <<"device alarm [">> \o mac \o <<"]: ">>
                                    \o Join(data.alarm.v, <<",">>),
                               "alarm", time)]
         ELSE [devices |-> devs2, logs |-> l])

updateDeviceData(devs, l, time, mac, data) ==
  IF mac \notin DOMAIN devs THEN [devices |-> devs, logs |-> l]
  ELSE Bind(MapSet(devs, mac, Spread(devs[mac], data)), LAMBDA devs2 :
         IF Truthy(OptGet(data, "alarm"))
         THEN [devices |-> devs2,
               logs |-> addLog(l, <<"device alarm [">> \o mac \o <<"]: ">>
                                    \o Join(data.alarm.v, <<",">>),
                               "alarm", time)]
         ELSE [devices |-> devs2, logs |-> l])

getDevice(devs, mac) == IF mac \in DOMAIN devs THEN devs[mac] ELSE Null

clear(devs, l, time) ==
  [devices |-> EmptyMap, logs |-> addLog(l, <<"device list cleared">>, "info", time)]

\* writeOk: whether the awaited fs.writeFile call completes; when it throws or
\* rejects, exportLogs rejects before it reaches its _addLog call
exportLogs(l, time, filePath, writeOk) ==
  IF writeOk
  THEN [threw |-> FALSE, logs |-> addLog(l, <<"logs exported: ">> \o filePath, "info", time)]
  ELSE [threw |-> TRUE, logs |-> l]

(***************************************************************************)
(* The broker event handlers (main.ts, startMqttBroker).  mainWindow is    *)
(* the ambient window handle; the model records each webContents.send call *)
(* and each Aedes.publish call of the handler that ran last.               *)
(***************************************************************************)
ProcessPid == 4242

Buf(bytes) == [t |-> "buffer", v |-> bytes]
Client(id) == [id |-> id]
Send(channel, payload) == [channel |-> channel, payload |-> payload]
ResponseTopic(clientId) == <<"/watch/response/">> \o clientId

\* Aedes.on('client', ...) in the process whose pid is given
onClientAt(devs, l, time, client, pid) ==
  Bind(addDevice(devs, l, time, client.id,
                 [clientId |-> Str(client.id),
                  status |-> Str(<<"online">>),
                  connectTime |-> TimeStr(time),
                  processId |-> Num(pid)]),
       LAMBDA added :
         [devices |-> added.devices,
          logs |-> added.logs,
          notified |-> <<Send("device:online", getDevice(added.devices, client.id))>>])

onClient(devs, l, time, client) == onClientAt(devs, l, time, client, ProcessPid)

\* one case of the switch that parses and then updates the registry: the
\* update is not reached when the parse call throws
parseThenUpdate(devs, l, time, clientId, parsed, data) ==
  IF parsed.threw
  THEN [threw |-> TRUE, parsedResult |-> parsed.val, devices |-> devs, logs |-> l]
  ELSE Bind(updateDeviceData(devs, l, time, clientId, data), LAMBDA updated :
         [threw |-> FALSE, parsedResult |-> parsed.val,
          devices |-> updated.devices, logs |-> updated.logs])

\* the MAC at offsets 2..7 of a frame, written as a client id is written
MacOfFrame(buffer) ==
  Bind(ToHex(Slice(buffer, 2, 8)), LAMBDA h :
    IF Len(h) = 12
    THEN <<h[1], h[2], ":", h[3], h[4], ":", h[5], h[6], ":",
           h[7], h[8], ":", h[9], h[10], ":", h[11], h[12]>>
    ELSE h)

\* the switch updating the record named by the MAC inside the frame
dispatchFrame_ByFrameMac(devs, l, time, clientId, hexData, buffer, frameType) ==
  CASE frameType = Num(BOOT_VERSION) ->
         Bind(parseBootVersionFrame(buffer), LAMBDA parsed :
           [threw |-> parsed.threw, parsedResult |-> parsed.val,
            devices |-> devs, logs |-> l])
    [] frameType = Num(HEALTH_DATA) ->
         Bind(parseHealthDataFrame(buffer), LAMBDA parsed :
           Bind(OptGet(parsed.val, "healthData"), LAMBDA healthData :
             parseThenUpdate(devs, l, time, MacOfFrame(buffer), parsed,
               [heartRate |-> OptGet(healthData, "heartRate"),
                bloodOxygen |-> OptGet(healthData, "bloodOxygen"),
                wristTemp |-> OptGet(healthData, "wristTemp"),
                bodyTemp |-> OptGet(healthData, "bodyTemp"),
                wearStatus |-> OptGet(healthData, "wearStatus")])))
    [] frameType = Num(ALARM_DATA) ->
         Bind(parseAlarmDataFrame(buffer), LAMBDA parsed :
           parseThenUpdate(devs, l, time, MacOfFrame(buffer), parsed,
             [alarm |-> OptGet(parsed.val, "alarmType"),
              alarmTime |-> TimeStr(time)]))
    [] OTHER ->
         [threw |-> FALSE,
          parsedResult |-> [error |-> Str(<<"unknown frame type">>),
                            rawData |-> Str(hexData)],
          devices |-> devs, logs |-> l]

\* the switch on frameType of the publish handler: the parse call and the
\* registry update of each case; threw when the parse call throws
dispatchFrame(devs, l, time, clientId, hexData, buffer, frameType) ==
  CASE frameType = Num(BOOT_VERSION) ->
         Bind(parseBootVersionFrame(buffer), LAMBDA parsed :
           [threw |-> parsed.threw, parsedResult |-> parsed.val,
            devices |-> devs, logs |-> l])
    [] frameType = Num(HEALTH_DATA) ->
         Bind(parseHealthDataFrame(buffer), LAMBDA parsed :
           Bind(OptGet(parsed.val, "healthData"), LAMBDA healthData :
             parseThenUpdate(devs, l, time, clientId, parsed,
               [heartRate |-> OptGet(healthData, "heartRate"),
                bloodOxygen |-> OptGet(healthData, "bloodOxygen"),
                wristTemp |-> OptGet(healthData, "wristTemp"),
                bodyTemp |-> OptGet(healthData, "bodyTemp"),
                wearStatus |-> OptGet(healthData, "wearStatus")])))
    [] frameType = Num(ALARM_DATA) ->
         Bind(parseAlarmDataFrame(buffer), LAMBDA parsed :
           parseThenUpdate(devs, l, time, clientId, parsed,
             [alarm |-> OptGet(parsed.val, "alarmType"),
              alarmTime |-> TimeStr(time)]))
    [] OTHER ->
         [threw |-> FALSE,
          parsedResult |-> [error |-> Str(<<"unknown frame type">>),
                            rawData |-> Str(hexData)],
          devices |-> devs, logs |-> l]

\* the acknowledgment section of the publish handler: the Aedes.publish calls
\* and the data:sent notifications it makes
acknowledge(clientId, frameType, parsedResult, time) ==
  IF Truthy(parsedResult) /\ ~Truthy(OptGet(parsedResult, "error"))
  THEN Bind(generateResponseFrame(StripColons(clientId), frameType),
            LAMBDA responseFrame :
         IF Truthy(responseFrame)
         THEN Bind(ToHex(responseFrame.v), LAMBDA responseHex :
                [outbox |-> <<[topic |-> ResponseTopic(clientId),
                               payload |-> FromHex(responseHex),
                               qos |-> 1,
                               retain |-> FALSE]>>,
                 notified |-> <<Send("data:sent",
                                     [clientId |-> Str(clientId),
                                      rawData |-> Str(responseHex),
                                      time |-> TimeStr(time)])>>])
         ELSE [outbox |-> <<>>, notified |-> <<>>])
  ELSE [outbox |-> <<>>, notified |-> <<>>]

\* the publish handler from its second line on
handlePublish(devs, l, time, hexData, clientId) ==
  Bind(FromHex(hexData), LAMBDA buffer :
  Bind(parseHeader(buffer), LAMBDA frameType :
  Bind(dispatchFrame(devs, l, time, clientId, hexData, buffer, frameType),
       LAMBDA d :
    IF d.threw
    THEN [ignored |-> FALSE, threw |-> TRUE, frameType |-> frameType,
          parsedResult |-> d.parsedResult, devices |-> d.devices,
          logs |-> d.logs, outbox |-> <<>>, notified |-> <<>>]
    ELSE Bind(acknowledge(clientId, frameType, d.parsedResult, time),
              LAMBDA ack :
           [ignored |-> FALSE, threw |-> FALSE, frameType |-> frameType,
            parsedResult |-> d.parsedResult, devices |-> d.devices,
            logs |-> d.logs, outbox |-> ack.outbox,
            notified |-> <<Send("data:received",
                                [clientId |-> Str(clientId),
                                 rawData |-> Str(hexData),
                                 parsedResult |-> d.parsedResult,
                                 time |-> TimeStr(time)])>>
                         \o ack.notified]))))

\* the publish handler testing the payload only: client.id of no client throws
onPublish_NoClientGuard(devs, l, time, packet, client) ==
  IF ~Truthy(packet.payload)
  THEN [ignored |-> TRUE, threw |-> FALSE, frameType |-> Null,
        parsedResult |-> Null, devices |-> devs, logs |-> l,
        outbox |-> <<>>, notified |-> <<>>]
  ELSE IF client = Null
       THEN [ignored |-> FALSE, threw |-> TRUE, frameType |-> Null,
             parsedResult |-> Null, devices |-> devs, logs |-> l,
             outbox |-> <<>>, notified |-> <<>>]
       ELSE Bind(ToHex(packet.payload.v), LAMBDA hexData :
              handlePublish(devs, l, time, hexData, client.id))

\* Aedes.on('publish', (packet, client) => ...).  ignored: the handler returned
\* at its first line; threw: it was left by an exception
onPublish(devs, l, time, packet, client) ==
  IF client = Null \/ ~Truthy(packet.payload)
  THEN [ignored |-> TRUE, threw |-> FALSE, frameType |-> Null,
        parsedResult |-> Null, devices |-> devs, logs |-> l,
        outbox |-> <<>>, notified |-> <<>>]
  ELSE Bind(ToHex(packet.payload.v), LAMBDA hexData :
         handlePublish(devs, l, time, hexData, client.id))

\* the clientDisconnect handler recording the time only: status is left as it was
onClientDisconnect_KeepsStatus(devs, l, time, client) ==
  IF client = Null
  THEN [ignored |-> TRUE, devices |-> devs, logs |-> l, notified |-> <<>>]
  ELSE Bind(updateDeviceData(devs, l, time, client.id,
                             [disconnectTime |-> TimeStr(time)]),
            LAMBDA updated :
         [ignored |-> FALSE, devices |-> updated.devices, logs |-> updated.logs,
          notified |-> <<Send("device:offline",
                              getDevice(updated.devices, client.id))>>])

\* Aedes.on('clientDisconnect', ...)
onClientDisconnect(devs, l, time, client) ==
  IF client = Null
  THEN [ignored |-> TRUE, devices |-> devs, logs |-> l, notified |-> <<>>]
  ELSE Bind(updateDeviceData(devs, l, time, client.id,
                             [status |-> Str(<<"offline">>),
                              disconnectTime |-> TimeStr(time)]),
            LAMBDA updated :
         [ignored |-> FALSE, devices |-> updated.devices, logs |-> updated.logs,
          notified |-> <<Send("device:offline",
                              getDevice(updated.devices, client.id))>>])

(***************************************************************************)
(* The inputs the model draws from.                                        *)
(***************************************************************************)
Mac1 == <<142, 131, 192, 34, 246, 4>>      \* 8e 83 c0 22 f6 04
Mac2 == <<10, 27, 44, 61, 78, 95>>         \* 0a 1b 2c 3d 4e 5f

Id1 == <<"8", "e", ":", "8", "3", ":", "c", "0", ":",
         "2", "2", ":", "f", "6", ":", "0", "4">>
Id2 == <<"0", "a", ":", "1", "b", ":", "2", "c", ":",
         "3", "d", ":", "4", "e", ":", "5", "f">>

ClientIds == {Id1, Id2}

\* a health block: 2 bytes, timestamp (4), frame count (4), heart rate 72,
\* blood oxygen 98, wear status 1, wrist temperature 365 and body temperature
\* -5 (4 each), then the bytes of the WiFi MAC that fit
Block21 == <<170, 102, 16, 32, 48, 64, 0, 0, 0, 7, 72, 98, 1,
             0, 0, 1, 109, 255, 255, 255, 251>>
Block24 == Block21 \o SubSeq(Mac2, 1, 3)
Block27 == Block21 \o Mac2

BootFrame(mac) == <<170, 68>> \o mac \o <<49, 46, 48>> \o <<PACKET_TAIL>>
HealthFrame(mac, block) ==
  <<170, 85>> \o mac \o <<90, 1>> \o <<0, Len(block)>> \o block \o <<PACKET_TAIL>>
AlarmFrame(mac, alarmByte, block) ==
  <<170, 119>> \o mac \o <<0, Len(block)>> \o <<alarmByte>> \o block \o <<PACKET_TAIL>>

\* the acknowledgment of a boot-version frame, as the broker hands it back
BootAck(mac) == <<170, 68>> \o mac \o <<NO_UPGRADE, 0, PACKET_TAIL>>

\* the same bytes with the last one replaced by 0
BadTail(frame) == SubSeq(frame, 1, Len(frame) - 1) \o <<0>>

Payloads ==
  { <<>>, <<170>>, <<1, 2, 3>>,
    BootFrame(Mac1), BadTail(BootFrame(Mac1)), BootFrame(Mac1) \o <<PACKET_TAIL>>,
    HealthFrame(Mac1, <<>>), HealthFrame(Mac2, Block27),
    <<170, 85, PACKET_TAIL>>, BadTail(HealthFrame(Mac1, Block24)),
    AlarmFrame(Mac1, 3, <<>>), AlarmFrame(Mac2, 0, Block24),
    <<170, 119, 1, PACKET_TAIL>>, BadTail(AlarmFrame(Mac1, 1, <<>>)) }

Packets == {[payload |-> Buf(p)] : p \in Payloads} \cup {[payload |-> Undefined]}

Clients == {Client(id) : id \in ClientIds}

\* the publish events: a device's publish of any packet, and the publishes the
\* broker raises with no client (its own messages)
PublishInputs ==
  (Clients \X Packets)
    \cup ({Null} \X {[payload |-> Buf(BootFrame(Mac1))], [payload |-> Buf(<<>>)],
                     [payload |-> Buf(BootAck(Mac1))]})

\* the inputs of a stand-alone generateResponseFrame call: the MAC bytes, the
\* case the hex digits are written in, and the frame type
BuildBytes == {0, 10, 255}
BuildMacBytes == [1..6 -> BuildBytes]
BuildFrameTypes ==
  {Num(BOOT_VERSION), Num(HEALTH_DATA), Num(ALARM_DATA), Num(0), Num(43622),
   Null, Undefined}

UpperCase(c) ==
  CASE c = "a" -> "A" [] c = "b" -> "B" [] c = "c" -> "C"
    [] c = "d" -> "D" [] c = "e" -> "E" [] c = "f" -> "F" [] OTHER -> c

HexString(bytes, upper) ==
  IF upper THEN [i \in 1..(2 * Len(bytes)) |-> UpperCase(ToHex(bytes)[i])]
  ELSE ToHex(bytes)

FilePaths == {<<"/tmp/log.txt">>}

(***************************************************************************)
(* The state machine.                                                      *)
(***************************************************************************)
NoBuild == [bytes |-> <<>>, mac |-> <<>>, frameType |-> Null, result |-> Null,
            done |-> FALSE]

\* no _parseAlarmType call, no mqtt:start request, no worker running
NoDecode == [alarmByte |-> 0, result |-> Null, done |-> FALSE]
NoStart ==
  [port |-> Undefined, isPrimary |-> TRUE, numCPUs |-> 0, forked |-> 0,
   returned |-> FALSE, result |-> Null, server |-> "none", uncaught |-> FALSE]
NoCluster == [regs |-> <<>>, conn |-> <<>>, worker |-> 0]

Event(kind, client, packet, ignored, threw, frameType, parsedResult) ==
  [kind |-> kind, client |-> client, packet |-> packet, ignored |-> ignored,
   threw |-> threw, frameType |-> frameType, parsedResult |-> parsedResult,
   data |-> EmptyObject]

NoPacket == [payload |-> Undefined]

Init ==
  /\ devices = EmptyMap
  /\ logs = <<>>
  /\ now = 0
  /\ outbox = <<>>
  /\ notified = <<>>
  /\ lastEvent = Event("none", Null, NoPacket, FALSE, FALSE, Null, Null)
  /\ events = 0
  /\ build = NoBuild
  /\ decode = NoDecode
  /\ mqtt = NoStart
  /\ cluster = NoCluster

Tick ==
  /\ now < MaxTime
  /\ now' = now + 1
  /\ UNCHANGED <<devices, logs, outbox, notified, lastEvent, events, build, decode, mqtt, cluster>>

Connect ==
  /\ events < MaxEvents
  /\ \E client \in Clients :
       \E r \in {onClient(devices, logs, now, client)} :
       /\ devices' = r.devices
       /\ logs' = r.logs
       /\ notified' = r.notified
       /\ outbox' = <<>>
       /\ lastEvent' = Event("client", client, NoPacket, FALSE, FALSE, Null, Null)
  /\ events' = events + 1
  /\ UNCHANGED <<now, build, decode, mqtt, cluster>>

Publish ==
  /\ events < MaxEvents
  /\ \E in \in PublishInputs :
       \E r \in {onPublish(devices, logs, now, in[2], in[1])} :
       /\ devices' = r.devices
       /\ logs' = r.logs
       /\ notified' = r.notified
       /\ outbox' = r.outbox
       /\ lastEvent' = Event("publish", in[1], in[2], r.ignored, r.threw,
                             r.frameType, r.parsedResult)
  /\ events' = events + 1
  /\ UNCHANGED <<now, build, decode, mqtt, cluster>>

Disconnect ==
  /\ events < MaxEvents
  /\ \E client \in Clients \cup {Null} :
       \E r \in {onClientDisconnect(devices, logs, now, client)} :
       /\ devices' = r.devices
       /\ logs' = r.logs
       /\ notified' = r.notified
       /\ outbox' = <<>>
       /\ lastEvent' = Event("clientDisconnect", client, NoPacket, r.ignored,
                             FALSE, Null, Null)
  /\ events' = events + 1
  /\ UNCHANGED <<now, build, decode, mqtt, cluster>>

Clear ==
  /\ events < MaxEvents
  /\ \E r \in {clear(devices, logs, now)} :
       /\ devices' = r.devices
       /\ logs' = r.logs
  /\ notified' = <<>>
  /\ outbox' = <<>>
  /\ lastEvent' = Event("clear", Null, NoPacket, FALSE, FALSE, Null, Null)
  /\ events' = events + 1
  /\ UNCHANGED <<now, build, decode, mqtt, cluster>>

ExportLogs ==
  /\ events < MaxEvents
  /\ \E filePath \in FilePaths, writeOk \in BOOLEAN :
       \E r \in {exportLogs(logs, now, filePath, writeOk)} :
       /\ logs' = r.logs
       /\ lastEvent' = Event("exportLogs", Null, NoPacket, FALSE, r.threw, Null, Null)
  /\ notified' = <<>>
  /\ outbox' = <<>>
  /\ events' = events + 1
  /\ UNCHANGED <<devices, now, build, decode, mqtt, cluster>>

Next == Tick \/ Connect \/ Publish \/ Disconnect \/ Clear \/ ExportLogs

Spec == Init /\ [][Next]_vars

(***************************************************************************)
(* generateResponseFrame on its own: one call per behaviour, on an input   *)
(* drawn from BuildMacBytes, either case, and BuildFrameTypes.             *)
(***************************************************************************)
BuildInit ==
  /\ devices = EmptyMap
  /\ logs = <<>>
  /\ now = 0
  /\ outbox = <<>>
  /\ notified = <<>>
  /\ lastEvent = Event("none", Null, NoPacket, FALSE, FALSE, Null, Null)
  /\ events = 0
  /\ \E bytes \in BuildMacBytes, upper \in BOOLEAN, frameType \in BuildFrameTypes :
       build = [bytes |-> bytes, mac |-> HexString(bytes, upper),
                frameType |-> frameType, result |-> Null, done |-> FALSE]
  /\ decode = NoDecode
  /\ mqtt = NoStart
  /\ cluster = NoCluster

BuildCall ==
  /\ ~build.done
  /\ build' = [build EXCEPT !.result = generateResponseFrame(build.mac, build.frameType),
                            !.done = TRUE]
  /\ UNCHANGED <<devices, logs, now, outbox, notified, lastEvent, events,
                 decode, mqtt, cluster>>

SpecBuild == BuildInit /\ [][BuildCall]_vars

(***************************************************************************)
(* _parseAlarmType on its own: one call per behaviour, on any byte.        *)
(***************************************************************************)
\* nothing has happened in the bridge
IdleBridge ==
  /\ devices = EmptyMap
  /\ logs = <<>>
  /\ now = 0
  /\ outbox = <<>>
  /\ notified = <<>>
  /\ lastEvent = Event("none", Null, NoPacket, FALSE, FALSE, Null, Null)
  /\ events = 0

AlarmBytes == 0..255

AlarmTypeInit ==
  /\ IdleBridge
  /\ build = NoBuild
  /\ \E alarmByte \in AlarmBytes :
       decode = [alarmByte |-> alarmByte, result |-> Null, done |-> FALSE]
  /\ mqtt = NoStart
  /\ cluster = NoCluster

AlarmTypeCall ==
  /\ ~decode.done
  /\ decode' = [decode EXCEPT !.result = parseAlarmType(decode.alarmByte),
                              !.done = TRUE]
  /\ UNCHANGED <<devices, logs, now, outbox, notified, lastEvent, events,
                 build, mqtt, cluster>>

SpecAlarmType == AlarmTypeInit /\ [][AlarmTypeCall]_vars

(***************************************************************************)
(* The mqtt:start request (ipcMain.handle('mqtt:start') and the head of    *)
(* startMqttBroker): one request per behaviour, in the primary process or  *)
(* in a worker, followed by the outcome of the listen call.                *)
(***************************************************************************)
\* the number of CPUs takes the values 1..MaxCPUs
MaxCPUs == 4

Ports ==
  {Undefined, Num(0), Num(1883), Num(8883), Num(65535), Num(65536), Num(-1)}

\* the default parameter value of startMqttBroker(port = 1883)
DefaultPort(port) == IF port = Undefined THEN Num(1883) ELSE port

\* net.Server.listen validates the port before it starts to bind
ValidPort(port) == port.t = "number" /\ port.v >= 0 /\ port.v <= 65535

\* startMqttBroker: the primary forks numCPUs workers and opens no listener;
\* a worker creates the server and calls listen, which throws at once for a
\* port out of range and otherwise binds later
startMqttBroker(port, isPrimary, numCPUs) ==
  IF isPrimary
  THEN [call |-> Returned(Undefined), forked |-> numCPUs, server |-> "none"]
  ELSE IF ValidPort(DefaultPort(port))
       THEN [call |-> Returned(Undefined), forked |-> 0, server |-> "binding"]
       ELSE [call |-> Thrown("ERR_SOCKET_BAD_PORT"), forked |-> 0,
             server |-> "none"]

\* ipcMain.handle('mqtt:start', (_, port) => ...)
mqttStart(port, isPrimary, numCPUs) ==
  Bind(startMqttBroker(port, isPrimary, numCPUs), LAMBDA started :
    [result |-> IF started.call.threw
                THEN [success |-> FALSE, error |-> started.call.val]
                ELSE [success |-> TRUE, port |-> port],
     forked |-> started.forked,
     server |-> started.server])

StartInit ==
  /\ IdleBridge
  /\ build = NoBuild
  /\ decode = NoDecode
  /\ \E port \in Ports, isPrimary \in BOOLEAN, numCPUs \in 1..MaxCPUs :
       mqtt = [NoStart EXCEPT !.port = port, !.isPrimary = isPrimary,
                              !.numCPUs = numCPUs]
  /\ cluster = NoCluster

MqttStart ==
  /\ ~mqtt.returned
  /\ \E r \in {mqttStart(mqtt.port, mqtt.isPrimary, mqtt.numCPUs)} :
       mqtt' = [mqtt EXCEPT !.returned = TRUE, !.result = r.result,
                            !.forked = r.forked, !.server = r.server]
  /\ UNCHANGED <<devices, logs, now, outbox, notified, lastEvent, events,
                 build, decode, cluster>>

\* the listen callback: the port is bound
Listening ==
  /\ mqtt.server = "binding"
  /\ mqtt' = [mqtt EXCEPT !.server = "listening"]
  /\ notified' = <<Send("mqtt:started", [port |-> DefaultPort(mqtt.port)])>>
  /\ UNCHANGED <<devices, logs, now, outbox, lastEvent, events,
                 build, decode, cluster>>

\* the port cannot be bound: the server emits 'error', for which the code
\* registers no listener, so the event is raised as an uncaught exception
ListenError ==
  /\ mqtt.server = "binding"
  /\ mqtt' = [mqtt EXCEPT !.server = "error", !.uncaught = TRUE]
  /\ UNCHANGED <<devices, logs, now, outbox, notified, lastEvent, events,
                 build, decode, cluster>>

SpecStart == StartInit /\ [][MqttStart \/ Listening \/ ListenError]_vars

(***************************************************************************)
(* Several workers (cluster.fork, one per CPU).  Each worker is a process  *)
(* of its own: it has its own deviceManager and handles the events of the  *)
(* connections it holds.  A device has one connection at a time.           *)
(***************************************************************************)
\* the workers are 1..NumWorkers
NumWorkers == 2

Workers == 1..NumWorkers
WorkerPid(w) == ProcessPid + w

NoRegistry == [devices |-> EmptyMap, logs |-> <<>>]

\* what the workers' clients publish
WorkerPackets ==
  {[payload |-> Buf(p)] :
     p \in {<<170, 119, 1, PACKET_TAIL>>, <<170, 85, PACKET_TAIL>>, BootFrame(Mac1)}}

\* every worker writes one registry, as if deviceManager were shared
WorkerApply_Shared(regs, w, registry) == [v \in DOMAIN regs |-> registry]

\* a handler run in worker w writes the deviceManager of that process
WorkerApply(regs, w, registry) == [regs EXCEPT ![w] = registry]

WorkersInit ==
  /\ IdleBridge
  /\ build = NoBuild
  /\ decode = NoDecode
  /\ mqtt = NoStart
  /\ cluster = [regs |-> [w \in Workers |-> NoRegistry],
                conn |-> [id \in ClientIds |-> 0],
                worker |-> 0]

\* a device connects to some worker
WorkerConnect ==
  /\ events < MaxEvents
  /\ \E w \in Workers, id \in ClientIds :
       /\ cluster.conn[id] = 0
       /\ \E r \in {onClientAt(cluster.regs[w].devices, cluster.regs[w].logs,
                                now, Client(id), WorkerPid(w))} :
            /\ cluster' = [regs |-> WorkerApply(cluster.regs, w,
                                      [devices |-> r.devices, logs |-> r.logs]),
                           conn |-> [cluster.conn EXCEPT ![id] = w],
                           worker |-> w]
            /\ notified' = r.notified
       /\ lastEvent' = Event("client", Client(id), NoPacket, FALSE, FALSE, Null, Null)
  /\ outbox' = <<>>
  /\ events' = events + 1
  /\ UNCHANGED <<devices, logs, now, build, decode, mqtt>>

\* a connected device publishes: the worker that holds the connection handles it
WorkerPublish ==
  /\ events < MaxEvents
  /\ \E id \in ClientIds, packet \in WorkerPackets :
       /\ cluster.conn[id] # 0
       /\ \E w \in {cluster.conn[id]} :
          \E r \in {onPublish(cluster.regs[w].devices, cluster.regs[w].logs,
                              now, packet, Client(id))} :
            /\ cluster' = [cluster EXCEPT
                             !.regs = WorkerApply(cluster.regs, w,
                                        [devices |-> r.devices, logs |-> r.logs]),
                             !.worker = w]
            /\ notified' = r.notified
            /\ outbox' = r.outbox
            /\ lastEvent' = Event("publish", Client(id), packet, r.ignored, r.threw,
                                  r.frameType, r.parsedResult)
  /\ events' = events + 1
  /\ UNCHANGED <<devices, logs, now, build, decode, mqtt>>

\* a connected device disconnects
WorkerDisconnect ==
  /\ events < MaxEvents
  /\ \E id \in ClientIds :
       /\ cluster.conn[id] # 0
       /\ \E w \in {cluster.conn[id]} :
          \E r \in {onClientDisconnect(cluster.regs[w].devices, cluster.regs[w].logs,
                                       now, Client(id))} :
            /\ cluster' = [regs |-> WorkerApply(cluster.regs, w,
                                      [devices |-> r.devices, logs |-> r.logs]),
                           conn |-> [cluster.conn EXCEPT ![id] = 0],
                           worker |-> w]
            /\ notified' = r.notified
            /\ lastEvent' = Event("clientDisconnect", Client(id), NoPacket,
                                  r.ignored, FALSE, Null, Null)
  /\ outbox' = <<>>
  /\ events' = events + 1
  /\ UNCHANGED <<devices, logs, now, build, decode, mqtt>>

\* a worker exits and the primary forks a new one in its place: the new
\* process starts with an empty deviceManager, the connections of the old
\* one are gone without a clientDisconnect having been handled
WorkerExit ==
  /\ events < MaxEvents
  /\ \E w \in Workers :
       /\ cluster' = [regs |-> [cluster.regs EXCEPT ![w] = NoRegistry],
                      conn |-> [id \in ClientIds |->
                                  IF cluster.conn[id] = w THEN 0
                                  ELSE cluster.conn[id]],
                      worker |-> w]
  /\ lastEvent' = Event("exit", Null, NoPacket, FALSE, FALSE, Null, Null)
  /\ notified' = <<>>
  /\ outbox' = <<>>
  /\ events' = events + 1
  /\ UNCHANGED <<devices, logs, now, build, decode, mqtt>>

SpecWorkers ==
  WorkersInit
    /\ [][Tick \/ WorkerConnect \/ WorkerPublish \/ WorkerDisconnect
            \/ WorkerExit]_vars

(***************************************************************************)
(* The registry used through its whole interface: besides the handlers'    *)
(* calls, a caller may invoke updateDeviceData with any partial.           *)
(***************************************************************************)
UpdatePartials ==
  { [alarm |-> Arr(<< <<"LowBattery">>, <<"SOS">> >>), alarmTime |-> TimeStr(now)],
    [heartRate |-> Num(72), bloodOxygen |-> Num(98), wristTemp |-> Tenths(365),
     bodyTemp |-> Tenths(366), wearStatus |-> Str(<<"worn">>)] }

Update ==
  /\ events < MaxEvents
  /\ \E id \in ClientIds, data \in UpdatePartials :
       \E r \in {updateDeviceData(devices, logs, now, id, data)} :
       /\ devices' = r.devices
       /\ logs' = r.logs
       /\ lastEvent' = [Event("update", Client(id), NoPacket, FALSE, FALSE, Null, Null)
                          EXCEPT !.data = data]
  /\ notified' = <<>>
  /\ outbox' = <<>>
  /\ events' = events + 1
  /\ UNCHANGED <<now, build, decode, mqtt, cluster>>

SpecRegistry == Init /\ [][Next \/ Update]_vars

(***************************************************************************)
(* Vocabulary of the properties.                                           *)
(***************************************************************************)
\* the frame shapes of the protocol: discriminant, length and tail byte
IsBootFrame(b) == Len(b) = 12 /\ b[1] = 170 /\ b[2] = 68 /\ b[12] = PACKET_TAIL
IsHealthFrame(b) ==
  Len(b) >= 13 /\ b[1] = 170 /\ b[2] = 85 /\ b[Len(b)] = PACKET_TAIL
IsAlarmFrame(b) ==
  Len(b) >= 13 /\ b[1] = 170 /\ b[2] = 119 /\ b[Len(b)] = PACKET_TAIL
IsTypedFrame(b) == IsBootFrame(b) \/ IsHealthFrame(b) \/ IsAlarmFrame(b)
HasKnownDiscriminant(b) == Len(b) >= 2 /\ b[1] = 170 /\ b[2] \in {68, 85, 119}
\* a health frame whose block, between offset 12 and the tail, has 24 bytes or more
HasHealthBlock(b) == IsHealthFrame(b) /\ Len(b) - 13 >= 24

\* the event handled last is a device's publish of a payload
ClientPublished ==
  lastEvent.kind = "publish" /\ lastEvent.client # Null
    /\ lastEvent.packet.payload # Undefined
PublishedBytes == lastEvent.packet.payload.v

IsTypedResult(r) == "frameType" \in DOMAIN r
IsUnknownResult(r) == "error" \in DOMAIN r /\ "rawData" \in DOMAIN r

Channel(name) == {i \in 1..Len(notified) : notified[i].channel = name}

\* the step handles an event of the given kind
Handles(kind) == events' = events + 1 /\ lastEvent'.kind = kind

OnlineEntry(id) == <<"device online: ">> \o id
LogMentions(content) == \E i \in 1..Len(logs) : logs[i].content = content

VitalKeys == {"heartRate", "bloodOxygen", "wristTemp", "bodyTemp", "wearStatus"}
Vitals(device) == [k \in VitalKeys \cap DOMAIN device |-> device[k]]

(***************************************************************************)
(* C1.  Decoding in the publish path never raises and yields, for every    *)
(* payload, a typed frame or an unknown-frame result with an error reason  *)
(* and the raw hex; a known discriminant with a wrong length or tail byte  *)
(* yields the unknown-frame result.                                        *)
(***************************************************************************)
C1_DecodeYieldsFrameOrUnknown ==
  ClientPublished =>
    /\ ~lastEvent.threw
    /\ IsTypedResult(lastEvent.parsedResult) \/ IsUnknownResult(lastEvent.parsedResult)
    /\ (HasKnownDiscriminant(PublishedBytes) /\ ~IsTypedFrame(PublishedBytes))
         => IsUnknownResult(lastEvent.parsedResult)

(***************************************************************************)
(* C2.  Every publish of a device, whatever its payload, runs the handler  *)
(* to completion and emits exactly one data:received notification that     *)
(* carries the raw hex of the payload.                                     *)
(***************************************************************************)
C2_PublishEmitsOneReceived ==
  ClientPublished =>
    /\ ~lastEvent.threw
    /\ Cardinality(Channel("data:received")) = 1
    /\ \A i \in Channel("data:received") :
         notified[i].payload.rawData = Str(ToHex(PublishedBytes))

(***************************************************************************)
(* C3.  A publish of a device is acknowledged iff its payload is a typed   *)
(* frame: then exactly one acknowledgment is published, on the downlink    *)
(* topic of the client id, with QoS 1 and retain false, followed by        *)
(* exactly one data:sent notification; otherwise nothing is published and  *)
(* no data:sent notification is emitted.                                   *)
(***************************************************************************)
C3_AckIffTypedFrame ==
  ClientPublished =>
    IF IsTypedFrame(PublishedBytes)
    THEN /\ Len(outbox) = 1
         /\ outbox[1].topic = ResponseTopic(lastEvent.client.id)
         /\ outbox[1].qos = 1
         /\ outbox[1].retain = FALSE
         /\ Cardinality(Channel("data:sent")) = 1
         /\ notified[Len(notified)].channel = "data:sent"
    ELSE /\ outbox = <<>>
         /\ Channel("data:sent") = {}

(***************************************************************************)
(* C4.  For a MAC of 6 bytes written as 12 hex characters,                 *)
(* generateResponseFrame returns AA 44, the MAC bytes, 00 00 0D for the    *)
(* boot-version type, AA 55, the MAC bytes, 01 0D for the health type,     *)
(* AA 77, the MAC bytes, 01 0D for the alarm type, and no buffer for any   *)
(* other type.                                                             *)
(***************************************************************************)
C4_ResponseFrameBytes ==
  build.done =>
    CASE build.frameType = Num(BOOT_VERSION) ->
           build.result = Arr(<<170, 68>> \o build.bytes \o <<0, 0, 13>>)
      [] build.frameType = Num(HEALTH_DATA) ->
           build.result = Arr(<<170, 85>> \o build.bytes \o <<1, 13>>)
      [] build.frameType = Num(ALARM_DATA) ->
           build.result = Arr(<<170, 119>> \o build.bytes \o <<1, 13>>)
      [] OTHER -> build.result = Null

C4_Witness ==
  /\ build.done
  /\ build.frameType = Num(HEALTH_DATA)
  /\ build.bytes = <<10, 255, 0, 10, 255, 0>>
  /\ build.mac[2] = "A"
  /\ build.result = Arr(<<170, 85, 10, 255, 0, 10, 255, 0, 1, 13>>)

(***************************************************************************)
(* C5.  When a 12-byte boot-version frame is published, decode succeeds    *)
(* and the acknowledgment published is AA 44, the 6 MAC bytes of the       *)
(* inbound frame, 00 00 0D.                                                *)
(***************************************************************************)
C5_BootFrameAcknowledged ==
  (ClientPublished /\ IsBootFrame(PublishedBytes)) =>
    /\ ~lastEvent.threw
    /\ IsTypedResult(lastEvent.parsedResult)
    /\ Len(outbox) = 1
    /\ outbox[1].payload = <<170, 68>> \o SubSeq(PublishedBytes, 3, 8) \o <<0, 0, 13>>

(***************************************************************************)
(* C6.  In every state between operations the log holds at most            *)
(* LogCapacity entries.                                                    *)
(***************************************************************************)
C6_LogBounded == Len(logs) <= LogCapacity

\* the log is full and the entry of Id2's connect has been evicted from it
C6_Witness ==
  /\ Id2 \in DOMAIN devices
  /\ Len(logs) = LogCapacity
  /\ ~LogMentions(OnlineEntry(Id2))

(***************************************************************************)
(* C7.  The log is a FIFO ring: an append to a full log removes exactly    *)
(* the oldest entry and puts the new entry last, the others keep their     *)
(* order; below capacity an append removes nothing; no other step changes  *)
(* the log.                                                                *)
(***************************************************************************)
AppendsLog ==
  \/ Handles("client")
  \/ Handles("clear")
  \/ Handles("exportLogs") /\ ~lastEvent'.threw
  \/ /\ Handles("update")
     /\ lastEvent'.client.id \in DOMAIN devices
     /\ "alarm" \in DOMAIN lastEvent'.data

C7_FifoStep ==
  IF AppendsLog
  THEN /\ Len(logs') >= 1
       /\ logs'[Len(logs')].time = TimeStr(now)
       /\ IF Len(logs) = LogCapacity
          THEN SubSeq(logs', 1, Len(logs') - 1) = Tail(logs)
          ELSE SubSeq(logs', 1, Len(logs') - 1) = logs
  ELSE logs' = logs

C7_LogIsFifo == [][C7_FifoStep]_vars

\* the log is full, the entry of Id1's connect has been evicted, and the
\* entry appended last is the alarm entry of an update
C7_Witness ==
  /\ Id1 \in DOMAIN devices
  /\ Len(logs) = LogCapacity
  /\ ~LogMentions(OnlineEntry(Id1))
  /\ lastEvent.kind = "update"
  /\ logs[Len(logs)].type = "alarm"
  /\ logs[Len(logs)].content
       = <<"device alarm [">> \o Id1 \o <<"]: ", "LowBattery", ",", "SOS">>

(***************************************************************************)
(* C8.  updateDeviceData for an id that has no record changes nothing,     *)
(* whatever the partial: no record is created, no record changes, the log  *)
(* is unchanged.  So a disconnect or a publish for an id that has no       *)
(* record creates no record and appends no log entry.                      *)
(***************************************************************************)
SamplePartials ==
  { [status |-> Str(<<"offline">>), disconnectTime |-> TimeStr(now)],
    [alarm |-> Arr(<< <<"LowBattery">>, <<"SOS">> >>), alarmTime |-> TimeStr(now)],
    [alarm |-> Undefined, alarmTime |-> TimeStr(now)],
    [heartRate |-> Num(72), bloodOxygen |-> Num(98), wristTemp |-> Tenths(365),
     bodyTemp |-> Tenths(366), wearStatus |-> Str(<<"worn">>)],
    [heartRate |-> Undefined, bloodOxygen |-> Undefined, wristTemp |-> Undefined,
     bodyTemp |-> Undefined, wearStatus |-> Undefined] }

C8_UpdateAbsentStep ==
  /\ \A id \in ClientIds \ DOMAIN devices : \A data \in SamplePartials :
       updateDeviceData(devices, logs, now, id, data)
         = [devices |-> devices, logs |-> logs]
  /\ ( /\ Handles("publish") \/ Handles("clientDisconnect") \/ Handles("update")
       /\ lastEvent'.client # Null
       /\ lastEvent'.client.id \notin DOMAIN devices )
       => devices' = devices /\ logs' = logs

C8_UpdateAbsentIsNoOp == [][C8_UpdateAbsentStep]_vars

\* an id connected, its record was removed by clear, and the event handled
\* last is its publish of a malformed alarm buffer, which reaches the update
C8_Witness ==
  /\ ClientPublished
  /\ ~lastEvent.threw
  /\ lastEvent.frameType = Num(ALARM_DATA)
  /\ lastEvent.client.id = Id1
  /\ Id1 \notin DOMAIN devices
  /\ LogMentions(OnlineEntry(Id1))
  /\ LogMentions(<<"device list cleared">>)

(***************************************************************************)
(* C9.  A disconnect of a registered device sets its status to offline and *)
(* its disconnectTime and changes nothing else: every other field of the   *)
(* record, every other record and the log are as before.                   *)
(***************************************************************************)
C9_DisconnectStep ==
  ( /\ Handles("clientDisconnect")
    /\ lastEvent'.client # Null
    /\ lastEvent'.client.id \in DOMAIN devices )
    => LET id == lastEvent'.client.id
           before == devices[id]
           after == devices'[id]
       IN /\ DOMAIN devices' = DOMAIN devices
          /\ \A other \in DOMAIN devices \ {id} : devices'[other] = devices[other]
          /\ DOMAIN after = DOMAIN before \cup {"status", "disconnectTime"}
          /\ after.status = Str(<<"offline">>)
          /\ after.disconnectTime = TimeStr(now)
          /\ \A k \in DOMAIN before \ {"status", "disconnectTime"} :
               after[k] = before[k]
          /\ logs' = logs

C9_DisconnectKeepsRecord == [][C9_DisconnectStep]_vars

\* a device connected, its vitals were recorded, and the event handled last is
\* its disconnect, at a later time than its connect
C9_Witness ==
  /\ lastEvent.kind = "clientDisconnect"
  /\ lastEvent.client = Client(Id1)
  /\ Id1 \in DOMAIN devices
  /\ devices[Id1].status = Str(<<"offline">>)
  /\ "heartRate" \in DOMAIN devices[Id1]
  /\ devices[Id1].heartRate = Num(72)
  /\ devices[Id1].alarm = Arr(<<>>)
  /\ devices[Id1].disconnectTime = TimeStr(1)
  /\ devices[Id1].connectTime = TimeStr(0)

(***************************************************************************)
(* C10.  A publish changes the vitals of a record (heartRate, bloodOxygen, *)
(* wristTemp, bodyTemp, wearStatus) only when its payload is a health      *)
(* frame that carries an embedded health block: a valid health frame       *)
(* without a block, and a buffer with the health discriminant that fails   *)
(* validation, leave them as they were.                                    *)
(***************************************************************************)
C10_VitalsStep ==
  ( /\ Handles("publish")
    /\ lastEvent'.client # Null
    /\ lastEvent'.packet.payload # Undefined
    /\ ~HasHealthBlock(lastEvent'.packet.payload.v) )
    => \A id \in DOMAIN devices :
         id \in DOMAIN devices' /\ Vitals(devices'[id]) = Vitals(devices[id])

C10_VitalsChangeOnlyByHealthBlock == [][C10_VitalsStep]_vars

(***************************************************************************)
(* C11.  A publish whose payload fails to decode (unknown discriminant,    *)
(* short buffer, or a known discriminant with a wrong length or tail byte) *)
(* leaves the registry unchanged: no field of any record changes, every    *)
(* alarm list stays a sequence, and no log entry is appended.              *)
(***************************************************************************)
C11_FailedDecodeStep ==
  ( /\ Handles("publish")
    /\ lastEvent'.client # Null
    /\ lastEvent'.packet.payload # Undefined
    /\ ~IsTypedFrame(lastEvent'.packet.payload.v) )
    => /\ devices' = devices
       /\ \A id \in DOMAIN devices' : devices'[id].alarm.t = "array"
       /\ logs' = logs

C11_FailedDecodeLeavesRegistry == [][C11_FailedDecodeStep]_vars

(***************************************************************************)
(* C12.  For every alarm byte 0..255 the decoded alarm type is the list    *)
(* that holds LowBattery iff bit0 is set and SOS iff bit1 is set,          *)
(* LowBattery first, and is [Unknown] exactly when neither bit is set;     *)
(* bits 2..7 do not change the result, and the list is never empty.        *)
(***************************************************************************)
C12_AlarmTypeTable ==
  decode.done =>
    /\ decode.result.t = "array"
    /\ Len(decode.result.v) >= 1
    /\ decode.result = parseAlarmType(decode.alarmByte % 4)
    /\ CASE decode.alarmByte % 4 = 0 -> decode.result.v = << <<"Unknown">> >>
         [] decode.alarmByte % 4 = 1 -> decode.result.v = << <<"LowBattery">> >>
         [] decode.alarmByte % 4 = 2 -> decode.result.v = << <<"SOS">> >>
         [] decode.alarmByte % 4 = 3 ->
              decode.result.v = << <<"LowBattery">>, <<"SOS">> >>

\* a byte with every bit but bit0 set
C12_Witness ==
  /\ decode.done
  /\ decode.alarmByte = 254
  /\ decode.result = Arr(<< <<"SOS">> >>)

(***************************************************************************)
(* C13.  Every MAC field of a typed frame is rendered from 6 bytes as 17   *)
(* characters of colon-separated hex: the mac of a valid boot-version      *)
(* frame (which also carries a 3-character version), the mac of a valid    *)
(* health or alarm frame, and the wifiMac of an embedded health block of   *)
(* 24 bytes or more.                                                       *)
(***************************************************************************)
C13_MacFieldsRendered ==
  (ClientPublished /\ IsTypedFrame(PublishedBytes)) =>
    /\ ~lastEvent.threw
    /\ IsTypedResult(lastEvent.parsedResult)
    /\ Len(lastEvent.parsedResult.mac.v) = 17
    /\ IsBootFrame(PublishedBytes) => Len(lastEvent.parsedResult.version.v) = 3
    /\ HasHealthBlock(PublishedBytes) =>
         Len(lastEvent.parsedResult.healthData.wifiMac.v) = 17

(***************************************************************************)
(* C14.  When the listener cannot bind the requested port, the mqtt:start  *)
(* request returns a failure result (success false with an error), never   *)
(* success, and the failure is not raised as an uncaught error.            *)
(***************************************************************************)
C14_BindFailureReported ==
  mqtt.server = "error" =>
    /\ mqtt.returned
    /\ mqtt.result.success = FALSE
    /\ "error" \in DOMAIN mqtt.result
    /\ ~mqtt.uncaught

(***************************************************************************)
(* C15.  Per device id the status is a two-state machine driven by connect *)
(* and disconnect alone: online right after a connect of the id, offline   *)
(* right after its disconnect, changed by no other event; a publish leaves *)
(* status, connectTime and disconnectTime of every record as they were;    *)
(* every record's status is online or offline.                             *)
(***************************************************************************)
Online == Str(<<"online">>)
Offline == Str(<<"offline">>)

\* the step handles an event of the given kind for the client id
HandlesFor(kind, id) == Handles(kind) /\ lastEvent'.client = Client(id)

C15_StatusStep ==
  /\ \A id \in DOMAIN devices' : devices'[id].status \in {Online, Offline}
  /\ \A id \in ClientIds :
       /\ HandlesFor("client", id) =>
            id \in DOMAIN devices' /\ devices'[id].status = Online
       /\ (HandlesFor("clientDisconnect", id) /\ id \in DOMAIN devices) =>
            id \in DOMAIN devices' /\ devices'[id].status = Offline
  /\ \A id \in DOMAIN devices' \ DOMAIN devices : HandlesFor("client", id)
  /\ \A id \in DOMAIN devices \cap DOMAIN devices' :
       /\ (devices[id].status = Online /\ devices'[id].status = Offline)
            => HandlesFor("clientDisconnect", id)
       /\ (devices[id].status = Offline /\ devices'[id].status = Online)
            => HandlesFor("client", id)
  /\ Handles("publish") =>
       /\ DOMAIN devices' = DOMAIN devices
       /\ \A id \in DOMAIN devices :
            /\ devices'[id].status = devices[id].status
            /\ devices'[id].connectTime = devices[id].connectTime
            /\ OptGet(devices'[id], "disconnectTime")
                 = OptGet(devices[id], "disconnectTime")
            /\ "disconnectTime" \in DOMAIN devices'[id]
                 <=> "disconnectTime" \in DOMAIN devices[id]

C15_StatusIsTwoStateMachine == [][C15_StatusStep]_vars

\* a device connected and disconnected, and the event handled last is its
\* publish of a malformed alarm buffer, which reached its record
C15_Witness ==
  /\ ClientPublished
  /\ lastEvent.client = Client(Id1)
  /\ ~lastEvent.threw
  /\ Id1 \in DOMAIN devices
  /\ devices[Id1].status = Offline
  /\ "disconnectTime" \in DOMAIN devices[Id1]
  /\ "alarmTime" \in DOMAIN devices[Id1]

(***************************************************************************)
(* C16.  A connect of an id overwrites: whatever record the id had, after  *)
(* the connect the registry holds for the id exactly the record with       *)
(* status online, empty health data and an empty alarm list, and nothing   *)
(* of the previous record (vitals, alarms, disconnectTime); one info entry *)
(* is appended to the log and the other records are unchanged.             *)
(***************************************************************************)
C16_ConnectStep ==
  \A id \in ClientIds :
    HandlesFor("client", id) =>
      /\ DOMAIN devices' = DOMAIN devices \cup {id}
      /\ devices'[id] = [clientId |-> Str(id),
                         status |-> Online,
                         connectTime |-> TimeStr(now),
                         processId |-> Num(ProcessPid),
                         healthData |-> EmptyObject,
                         alarm |-> Arr(<<>>)]
      /\ \A other \in DOMAIN devices \ {id} : devices'[other] = devices[other]
      /\ Len(logs') >= 1
      /\ logs'[Len(logs')] = [time |-> TimeStr(now), type |-> "info",
                              content |-> OnlineEntry(id)]
      /\ SubSeq(logs', 1, Len(logs') - 1)
           = IF Len(logs) = LogCapacity THEN Tail(logs) ELSE logs

C16_ConnectOverwrites == [][C16_ConnectStep]_vars

\* a device connected, an alarm was recorded for it (the log still holds the
\* entry), and the event handled last is its connect: the record is fresh
C16_Witness ==
  /\ lastEvent.kind = "client"
  /\ lastEvent.client = Client(Id1)
  /\ Len(logs) = 2
  /\ logs[1].type = "alarm"
  /\ logs[1].content
       = <<"device alarm [">> \o Id1 \o <<"]: ", "LowBattery", ",", "SOS">>
  /\ logs[2].content = OnlineEntry(Id1)
  /\ devices[Id1].alarm = Arr(<<>>)
  /\ "alarmTime" \notin DOMAIN devices[Id1]

(***************************************************************************)
(* C17.  A publish of a valid alarm frame by a registered device sets the  *)
(* record's alarm field to the decoded alarm-type list and appends exactly *)
(* one alarm entry naming those types to the log; a publish of any other   *)
(* payload, and an alarm frame of an unregistered id, appends nothing.     *)
(***************************************************************************)
C17_AlarmStep ==
  \A id \in ClientIds :
    (HandlesFor("publish", id) /\ lastEvent'.packet.payload # Undefined) =>
      LET bytes == lastEvent'.packet.payload.v
      IN IF IsAlarmFrame(bytes) /\ id \in DOMAIN devices
         THEN /\ id \in DOMAIN devices'
              /\ devices'[id].alarm = parseAlarmType(bytes[11])
              /\ Len(logs') >= 1
              /\ logs'[Len(logs')].type = "alarm"
              /\ logs'[Len(logs')].content
                   = <<"device alarm [">> \o id \o <<"]: ">>
                       \o Join(parseAlarmType(bytes[11]).v, <<",">>)
              /\ SubSeq(logs', 1, Len(logs') - 1)
                   = IF Len(logs) = LogCapacity THEN Tail(logs) ELSE logs
         ELSE logs' = logs

IdBytes(id) == FromHex(StripColons(id))

C18_OwnRecordStep ==
  \A a \in ClientIds :
    ( \/ HandlesFor("client", a)
      \/ HandlesFor("publish", a)
      \/ HandlesFor("clientDisconnect", a) )
      => /\ \A b \in DOMAIN devices \ {a} :
              b \in DOMAIN devices' /\ devices'[b] = devices[b]
         /\ DOMAIN devices' \subseteq DOMAIN devices \cup {a}
         /\ \A i \in 1..Len(outbox') : outbox'[i].topic = ResponseTopic(a)
         \* the acknowledgment section, had the frame been decoded with the
         \* MAC of b in it
         /\ ( /\ HandlesFor("publish", a)
              /\ lastEvent'.packet.payload # Undefined
              /\ IsTypedFrame(lastEvent'.packet.payload.v) )
              => \A b \in ClientIds :
                   \E ack \in {acknowledge(a, lastEvent'.frameType,
                                            [frameType |-> lastEvent'.frameType,
                                             mac |-> Str(b)],
                                            now)} :
                     /\ Len(ack.outbox) = 1
                     /\ ack.outbox[1].topic = ResponseTopic(a)
                     /\ SubSeq(ack.outbox[1].payload, 3, 8) = IdBytes(a)

C18_OnlyOwnRecord == [][C18_OwnRecordStep]_vars

\* both devices are registered, and the event handled last is the publish by
\* Id2 of a malformed alarm frame that carries the MAC of Id1: the record of
\* Id2 changed, the record of Id1 is as its connect left it
C18_Witness ==
  /\ ClientPublished
  /\ lastEvent.client = Client(Id2)
  /\ PublishedBytes = BadTail(AlarmFrame(Mac1, 1, <<>>))
  /\ Id1 \in DOMAIN devices
  /\ Id2 \in DOMAIN devices
  /\ "alarmTime" \in DOMAIN devices[Id2]
  /\ "alarmTime" \notin DOMAIN devices[Id1]
  /\ devices[Id1].alarm = Arr(<<>>)

(***************************************************************************)
(* C19.  With several workers, each with a registry of its own, an event   *)
(* handled by one worker changes no other worker's registry or log, and a  *)
(* device's record is present only in the registry of the worker that      *)
(* holds its connection, also after the device has moved from one worker   *)
(* to another.                                                             *)
(***************************************************************************)
\* the step is an event of worker w and leaves the other workers' registries
\* and logs as they were
C19_Isolation ==
  \A w \in Workers :
    (events' = events + 1 /\ cluster'.worker = w) =>
      \A v \in Workers \ {w} : cluster'.regs[v] = cluster.regs[v]

C19_PresentOnlyAtHolderStep ==
  /\ C19_Isolation
  /\ \A w \in Workers : \A id \in DOMAIN cluster'.regs[w].devices :
       cluster'.conn[id] = w

C19_RecordOnlyAtHolder == [][C19_PresentOnlyAtHolderStep]_vars

(***************************************************************************)
(* C19, as the code has it.  An event handled by one worker changes no     *)
(* other worker's registry or log; a record appears in a worker's registry *)
(* only by a connect handled by that worker; the worker that holds a       *)
(* device's connection has its record, with status online, and a record    *)
(* with status online is present only in the registry of the worker that   *)
(* holds the connection.  A worker the device has left keeps the record,   *)
(* with status offline.                                                    *)
(***************************************************************************)
C19_OnlineOnlyAtHolderStep ==
  /\ C19_Isolation
  /\ \A w \in Workers :
       /\ \A id \in DOMAIN cluster'.regs[w].devices :
            /\ cluster'.regs[w].devices[id].status = Online => cluster'.conn[id] = w
            /\ id \notin DOMAIN cluster.regs[w].devices =>
                 HandlesFor("client", id) /\ cluster'.worker = w
       /\ \A id \in DOMAIN cluster.regs[w].devices :
            (HandlesFor("clientDisconnect", id) /\ cluster'.worker = w) =>
              /\ id \in DOMAIN cluster'.regs[w].devices
              /\ cluster'.regs[w].devices[id].status = Offline
  /\ \A id \in ClientIds :
       cluster'.conn[id] # 0 =>
         /\ id \in DOMAIN cluster'.regs[cluster'.conn[id]].devices
         /\ cluster'.regs[cluster'.conn[id]].devices[id].status = Online

C19_OnlineRecordOnlyAtHolder == [][C19_OnlineOnlyAtHolderStep]_vars

\* Id1 connected to worker 1, disconnected, and connected to worker 2: worker 1
\* still has its record, offline; worker 2 has its record, online
C19_Witness ==
  /\ cluster.conn # <<>>
  /\ cluster.conn[Id1] = 2
  /\ Id1 \in DOMAIN cluster.regs[1].devices
  /\ cluster.regs[1].devices[Id1].status = Offline
  /\ cluster.regs[1].devices[Id1].processId = Num(WorkerPid(1))
  /\ Id1 \in DOMAIN cluster.regs[2].devices
  /\ cluster.regs[2].devices[Id1].status = Online
  /\ cluster.regs[2].devices[Id1].processId = Num(WorkerPid(2))

(***************************************************************************)
(* C20.  Acknowledgments do not feed back: a publish event with no client, *)
(* which is what the broker raises for a message the bridge published, is  *)
(* ignored (no registry change, no notification, no acknowledgment); one   *)
(* inbound frame causes at most one acknowledgment.                        *)
(***************************************************************************)
IgnoredPublish(devs, l) ==
  [ignored |-> TRUE, threw |-> FALSE, frameType |-> Null, parsedResult |-> Null,
   devices |-> devs, logs |-> l, outbox |-> <<>>, notified |-> <<>>]

C20_NoFeedbackStep ==
  /\ (Handles("publish") /\ lastEvent'.client = Null) =>
       /\ lastEvent'.ignored
       /\ ~lastEvent'.threw
       /\ devices' = devices
       /\ logs' = logs
       /\ notified' = <<>>
       /\ outbox' = <<>>
  /\ Handles("publish") =>
       /\ Len(outbox') <= 1
       /\ \A i \in 1..Len(outbox') :
            onPublish(devices', logs', now, [payload |-> Buf(outbox'[i].payload)], Null)
              = IgnoredPublish(devices', logs')
  \* the acknowledgment section, had the frame been decoded: one publish at
  \* most, and the publish event raised for it is ignored
  /\ ( /\ Handles("publish")
       /\ lastEvent'.client # Null
       /\ lastEvent'.packet.payload # Undefined
       /\ IsTypedFrame(lastEvent'.packet.payload.v) )
       => \E ack \in {acknowledge(lastEvent'.client.id, lastEvent'.frameType,
                                   [frameType |-> lastEvent'.frameType], now)} :
            /\ Len(ack.outbox) = 1
            /\ onPublish(devices', logs', now,
                         [payload |-> Buf(ack.outbox[1].payload)], Null)
                 = IgnoredPublish(devices', logs')

C20_AcksDoNotFeedBack == [][C20_NoFeedbackStep]_vars

\* a device is registered, and the event handled last is the publish the
\* broker raises, with no client, for a boot-version acknowledgment
C20_Witness ==
  /\ lastEvent.kind = "publish"
  /\ lastEvent.client = Null
  /\ lastEvent.packet.payload = Buf(BootAck(Mac1))
  /\ lastEvent.ignored
  /\ Id1 \in DOMAIN devices
  /\ devices[Id1].status = Online

====
